---- MODULE Spec2Model ----
(***************************************************************************)
(* A model of topo/submodel/__init__.py: the specification templates       *)
(* (SheetSpec, ProjectionSpec), the priority-ordered ClassDecorator        *)
(* registry, the matchcondition test, the Model setup pipeline, the        *)
(* ordered instantiation of projections and the legacy order_projections   *)
(* helper.                                                                 *)
(*                                                                         *)
(* Python values are records [t, n, s]: an int n (t = "int") or a str      *)
(* given as the sequence s of its characters (t = "str").  Dictionaries    *)
(* are functions whose domain is the set of their keys.                    *)
(***************************************************************************)
EXTENDS Integers, Sequences, FiniteSets, TLC

VARIABLES
    \* ---- ClassDecorator registry ----
    priority,      \* ClassDecorator.priority, the class-level counter
    labels,        \* labels[d]: the dict self.labels of registry object d
    types,         \* types[d]:  the dict self.types of registry object d
    regLog,        \* history: the registrations made so far, in order
    \* ---- one call of Model._matchcondition_holds ----
    mcCriteria,    \* the argument matchconditions: None or a dictionary
    mcSrc,         \* src_sheet.properties
    mcResult,      \* "pending", or the value returned: "True" / "False"
    \* ---- two SheetSpec constructions ----
    nmInput,       \* nmInput[i]: the properties argument, its items in insertion order
    nmSpec,        \* nmSpec[i]: the outcome of SheetSpec(...) and str(...), once made
    \* ---- a Model subclass and one run of Model.setup ----
    cfg,           \* what the subclass defines and the setup_options argument
    pc,            \* the stage setup is at, "done", or "raised"
    error,         \* the exception that ended setup, "" if none
    calls,         \* history: the hooks and stages invoked, in order
    sheets,        \* self.sheets.path_items: the SheetSpecs in path order
    projections,   \* self.projections.path_items: the ProjectionSpecs in path order
    nSetPath,      \* history: the number of self.projections.set_path calls
    produced,      \* history: the ProjectionSpecs given to self.projections.set_path, in order
    \* ---- order_projections(model, connection_order) and model(['projections']) ----
    connection_order,  \* the argument connection_order
    ordPc,         \* "ready", "ordering", "returned", "raised", "calling", "called"
    ordIdx,        \* the position of order_projections' loop in model.projections
    queue,         \* sorted(self.projections), what is left of it to connect
    connected,     \* history: the ProjectionSpecs passed to topo.sim.connect, in order
    \* ---- a MatchConditions object ----
    levelsTable,   \* self._levels: level -> (method_name -> function)
    condLog,       \* history: the registrations made so far, in order
    condCall       \* the last compute_conditions call made since the last registration

regVars == <<priority, labels, types, regLog>>
mcVars == <<mcCriteria, mcSrc, mcResult>>
nmVars == <<nmInput, nmSpec>>
setupVars == <<cfg, pc, error, calls, sheets, projections, nSetPath, produced>>
ordVars == <<connection_order, ordPc, ordIdx, queue, connected>>
condVars == <<levelsTable, condLog, condCall>>

vars == <<regVars, mcVars, nmVars, setupVars, ordVars, condVars>>

----------------------------------------------------------------------------
(* Python values and str()                                                 *)

PyInt(n) == [t |-> "int", n |-> n, s |-> <<>>]
PyStr(s) == [t |-> "str", n |-> 0, s |-> s]

DigitChar(d) == <<"0", "1", "2", "3", "4", "5", "6", "7", "8", "9">>[d + 1]

RECURSIVE Digits(_)
Digits(n) == IF n < 10 THEN <<DigitChar(n)>>
             ELSE Digits(n \div 10) \o <<DigitChar(n % 10)>>

\* str(v) for an int or a str
Str(v) == IF v.t = "str" THEN v.s ELSE Digits(v.n)

\* a in b, for two strings
IsSubstring(a, b) ==
    \E i \in 0..(Len(b) - Len(a)) : SubSeq(b, i + 1, i + Len(a)) = a

\* the permutations of a finite set, as sequences
Perms(S) == {p \in [1..Cardinality(S) -> S] :
                \A i, j \in 1..Cardinality(S) : p[i] = p[j] => i = j}

----------------------------------------------------------------------------
(* sorted(): Python's sort is stable and compares with <                   *)

\* insert x behind every element that is not greater than it
RECURSIVE InsertByKey(_, _)
InsertByKey(sorted, x) ==
    IF sorted = <<>> THEN <<x>>
    ELSE IF x.key < sorted[Len(sorted)].key
         THEN InsertByKey(SubSeq(sorted, 1, Len(sorted) - 1), x)
                  \o <<sorted[Len(sorted)]>>
         ELSE Append(sorted, x)

RECURSIVE SortedByKey(_)
SortedByKey(seq) ==
    IF seq = <<>> THEN <<>>
    ELSE InsertByKey(SortedByKey(SubSeq(seq, 1, Len(seq) - 1)), seq[Len(seq)])

----------------------------------------------------------------------------
(* ClassDecorator and Model._collect                                       *)

MaxRegs == 3            \* registrations made in one run
NumDecorators == 2      \* registry objects (one per registered object type)

Decorators == 1..NumDecorators
Labels == {"V1", "LGN"}     \* names of the decorated methods
Fns == {"base", "sub"}      \* the decorated functions

\* ClassDecorator.__init__: self.type is the object type the registry is for
TypeOf(d) == d

\* flattened = [el for d in decorators for el in getattr(d, name).items()],
\* the decorators and the items of each dictionary met in the given orders
RECURSIVE Items(_, _)
Items(dict, keyOrder) ==
    IF keyOrder = <<>> THEN <<>>
    ELSE (IF keyOrder[1] \in DOMAIN dict
          THEN <<[label |-> keyOrder[1], key |-> dict[keyOrder[1]][1],
                  val |-> dict[keyOrder[1]][2]]>>
          ELSE <<>>) \o Items(dict, Tail(keyOrder))

RECURSIVE Flattened(_, _, _)
Flattened(attr, decOrder, keyOrder) ==
    IF decOrder = <<>> THEN <<>>
    ELSE Items(attr[decOrder[1]], keyOrder)
             \o Flattened(attr, Tail(decOrder), keyOrder)

\* dict((k, v) for ...): a later pair overwrites an earlier one of its key
RECURSIVE DictOf(_)
DictOf(pairs) ==
    IF pairs = <<>> THEN <<>>
    ELSE LET rest == DictOf(SubSeq(pairs, 1, Len(pairs) - 1))
             last == pairs[Len(pairs)]
         IN [k \in DOMAIN rest \cup {last.label} |->
                IF k = last.label THEN last.val ELSE rest[k]]

CollectUnsorted(attr, decOrder, keyOrder) ==
    DictOf(Flattened(attr, decOrder, keyOrder))

\* Model._collect(decorators, name)
Collect(attr, decOrder, keyOrder) ==
    DictOf(SortedByKey(Flattened(attr, decOrder, keyOrder)))

RegisterKeepingCounter(d, label, f) ==
    /\ priority < MaxRegs
    /\ types' = [types EXCEPT ![d] =
                    [k \in DOMAIN types[d] \cup {label} |->
                        IF k = label THEN <<priority, TypeOf(d)>> ELSE types[d][k]]]
    /\ labels' = [labels EXCEPT ![d] =
                    [k \in DOMAIN labels[d] \cup {label} |->
                        IF k = label THEN <<priority, f>> ELSE labels[d][k]]]
    /\ priority' = priority
    /\ regLog' = Append(regLog, [d |-> d, label |-> label, f |-> f, priority |-> priority])
    /\ UNCHANGED <<mcVars, nmVars, setupVars, ordVars, condVars>>

\* ClassDecorator.__call__(f), f.__name__ = label
Register(d, label, f) ==
    /\ priority < MaxRegs
    /\ types' = [types EXCEPT ![d] =
                    [k \in DOMAIN types[d] \cup {label} |->
                        IF k = label THEN <<priority, TypeOf(d)>> ELSE types[d][k]]]
    /\ labels' = [labels EXCEPT ![d] =
                    [k \in DOMAIN labels[d] \cup {label} |->
                        IF k = label THEN <<priority, f>> ELSE labels[d][k]]]
    /\ priority' = priority + 1
    /\ regLog' = Append(regLog, [d |-> d, label |-> label, f |-> f, priority |-> priority])
    /\ UNCHANGED <<mcVars, nmVars, setupVars, ordVars, condVars>>

RegInit ==
    /\ priority = 0
    /\ labels = [d \in Decorators |-> <<>>]
    /\ types = [d \in Decorators |-> <<>>]
    /\ regLog = <<>>

RegNext == \E d \in Decorators, label \in Labels, f \in Fns : Register(d, label, f)

----------------------------------------------------------------------------
(* Property values and dictionaries                                        *)

On == PyStr(<<"O", "n">>)
Off == PyStr(<<"O", "f", "f">>)
OnOff == PyStr(<<"O", "n", "O", "f", "f">>)
Retina == PyStr(<<"R", "e", "t", "i", "n", "a">>)
V1 == PyStr(<<"V", "1">>)

\* None, or a dictionary d
PyNone == [none |-> TRUE, d |-> <<>>]
PyDict(d) == [none |-> FALSE, d |-> d]

\* the values a property may take in the inputs drawn below
ValuesOf(k) ==
    CASE k = "level" -> {Retina, V1}
      [] k = "polarity" -> {On, Off, OnOff}
      [] k = "SF" -> {PyInt(1), PyInt(12)}
      [] OTHER -> {PyInt(1)}

\* the dictionaries with keys among K
DictsOver(K) ==
    UNION {{f \in [S -> UNION {ValuesOf(k) : k \in K}] :
               \A k \in S : f[k] \in ValuesOf(k)} : S \in SUBSET K}

----------------------------------------------------------------------------
(* Model._matchcondition_holds                                             *)

MatchconditionHoldsReversed(matchconditions, properties) ==
    /\ ~matchconditions.none
    /\ ~\E k \in DOMAIN matchconditions.d :
           /\ k \in DOMAIN properties
           /\ ~IsSubstring(Str(matchconditions.d[k]), Str(properties[k]))

\* the loop leaves with matches = False at the first key of matchconditions
\* that src_sheet.properties has and whose test fails
MatchconditionHolds(matchconditions, properties) ==
    /\ ~matchconditions.none
    /\ ~\E k \in DOMAIN matchconditions.d :
           /\ k \in DOMAIN properties
           /\ ~IsSubstring(Str(properties[k]), Str(matchconditions.d[k]))

McKeys == {"level", "polarity", "SF"}

McInit ==
    /\ mcCriteria \in {PyNone} \cup {PyDict(d) : d \in DictsOver(McKeys)}
    /\ mcSrc \in {d \in DictsOver(McKeys) : "level" \in DOMAIN d}
    /\ mcResult = "pending"

McIdle ==
    /\ mcCriteria = PyNone
    /\ mcSrc = <<>>
    /\ mcResult = "pending"

CallMatchconditionHolds ==
    /\ mcResult = "pending"
    /\ mcResult' = IF MatchconditionHolds(mcCriteria, mcSrc) THEN "True" ELSE "False"
    /\ UNCHANGED <<mcCriteria, mcSrc, regVars, nmVars, setupVars, ordVars, condVars>>

----------------------------------------------------------------------------
(* SheetSpec.__init__ and SheetSpec.__str__                                *)

name_ordering == <<"eye", "level", "cone", "polarity", "SF", "opponent", "surround">>

\* properties[k] and "k in properties" for a mapping given by its items
HasKey(items, k) == \E i \in DOMAIN items : items[i][1] = k
Lookup(items, k) == items[CHOOSE i \in DOMAIN items : items[i][1] = k][2]

\* [(k, properties[k]) for k in self.name_ordering if k in properties]
RECURSIVE OrderedProperties(_, _)
OrderedProperties(items, ordering) ==
    IF ordering = <<>> THEN <<>>
    ELSE (IF HasKey(items, ordering[1])
          THEN <<<<ordering[1], Lookup(items, ordering[1])>>>>
          ELSE <<>>) \o OrderedProperties(items, Tail(ordering))

\* SheetSpec.__str__: the str() of the property values, one after the other
RECURSIVE SheetName(_)
SheetName(properties) ==
    IF properties = <<>> THEN <<>>
    ELSE Str(properties[1][2]) \o SheetName(Tail(properties))

NewSheetSpecUnordered(items) ==
    IF ~HasKey(items, "level")
    THEN [status |-> "raised", properties |-> <<>>, name |-> <<>>]
    ELSE LET props == SelectSeq(items,
                        LAMBDA it : \E i \in DOMAIN name_ordering : name_ordering[i] = it[1])
         IN [status |-> "ok", properties |-> props, name |-> SheetName(props)]

\* SheetSpec(sheet_type, properties) followed by str(): the exception, or the
\* ordered properties and the name
NewSheetSpec(items) ==
    IF ~HasKey(items, "level")
    THEN [status |-> "raised", properties |-> <<>>, name |-> <<>>]
    ELSE LET props == OrderedProperties(items, name_ordering)
         IN [status |-> "ok", properties |-> props, name |-> SheetName(props)]

NmKeys == {"level", "polarity", "SF", "colour"}    \* "colour" is no canonical key

\* the mappings over NmKeys, each with every insertion order of its items
NmInputs ==
    UNION {{[i \in DOMAIN p |-> <<p[i], d[p[i]]>>] : p \in Perms(DOMAIN d)} :
              d \in {e \in DictsOver(NmKeys) :
                        /\ "level" \in DOMAIN e => e["level"] = V1
                        /\ "polarity" \in DOMAIN e => e["polarity"] = On}}

NotConstructed == [status |-> "pending", properties |-> <<>>, name |-> <<>>]

NmInit ==
    /\ nmInput \in [1..2 -> NmInputs]
    /\ nmSpec = [i \in 1..2 |-> NotConstructed]

NmIdle ==
    /\ nmInput = <<>>
    /\ nmSpec = <<>>

Construct(i) ==
    /\ nmSpec[i].status = "pending"
    /\ nmSpec' = [nmSpec EXCEPT ![i] = NewSheetSpec(nmInput[i])]
    /\ UNCHANGED <<nmInput, regVars, mcVars, setupVars, ordVars, condVars>>

----------------------------------------------------------------------------
(* A Model subclass                                                        *)

available_setup_options ==
    <<"attributes", "training_patterns", "sheets", "projections", "analysis">>

\* setup_options: True, or a list of options
OptionsTrue == [all |-> TRUE, list |-> <<>>]
OptionList(l) == [all |-> FALSE, list |-> l]

SetupOptions ==
    {OptionsTrue,
     OptionList(<<"sheets", "projections">>),
     OptionList(<<"projections", "sheets">>),
     OptionList(<<"analysis", "projections", "sheets", "training_patterns", "attributes">>),
     OptionList(<<"analysis", "attributes">>),
     OptionList(<<"projections">>)}

Levels == <<"Retina", "V1">>        \* the levels, in the order setup_sheets lists them
LevelValue(level) == IF level = "Retina" THEN Retina ELSE V1

SF(n) == [k \in {"SF"} |-> PyInt(n)]

\* the property lists setup_sheets may return for a level
PropertyLists(level) ==
    IF level = "Retina" THEN {<<>>, << <<>> >>}
    ELSE {<<>>, <<SF(1)>>, <<SF(1), SF(12)>>, <<SF(1), SF(1)>>}

MatchNames == {"afferent", "lateral"}

\* the matchcondition functions a subclass defines: each maps the properties
\* of the destination to the criteria for its sources
MatchFns(level, matchname) ==
    IF level = "Retina"
    THEN (IF matchname = "afferent" THEN {"unregistered", "any"} ELSE {"unregistered"})
    ELSE (IF matchname = "afferent"
          THEN {"unregistered", "none", "any", "fromRetina", "sameSF"}
          ELSE {"unregistered", "sameSF"})

MatchFn(fn, properties) ==
    CASE fn = "none" -> PyNone
      [] fn = "any" -> PyDict(<<>>)
      [] fn = "fromRetina" -> PyDict([k \in {"level"} |-> Retina])
      [] fn = "sameSF" -> PyDict([k \in {"SF"} \cap DOMAIN properties |-> properties[k]])

\* the projection parameter functions a subclass defines: one parameter
\* mapping per source, one mapping with a fixed name, an empty list, a list
\* of two mappings, one mapping per source that also names the source under
\* the key src; "unregistered": no method is decorated for the matchname
ProjectionFns ==
    {"perSource", "fixedName", "emptyList", "twoSets", "withSrc", "unregistered"}

Configs ==
    [options : SetupOptions,
     sheet_properties : {f \in [{"Retina", "V1"} ->
                                   UNION {PropertyLists(Levels[i]) : i \in 1..2}] :
                            \A l \in {"Retina", "V1"} : f[l] \in PropertyLists(l)},
     sheet_levels : {{"Retina", "V1"}, {"Retina"}, {"V1"}},
     matchfns : {f \in [{"Retina", "V1"} -> [MatchNames ->
                                   {"unregistered", "none", "any", "fromRetina", "sameSF"}]] :
                    \A l \in {"Retina", "V1"}, m \in MatchNames : f[l][m] \in MatchFns(l, m)},
     conditions_order : Perms(MatchNames),
     projection_fn : ProjectionFns,
     private_hook : BOOLEAN]

Selected(option) ==
    \/ cfg.options.all
    \/ \E i \in DOMAIN cfg.options.list : cfg.options.list[i] = option

SetPathKeepingFirst(items, path, item) ==
    IF \E i \in DOMAIN items : items[i].path = path
    THEN items
    ELSE Append(items, item)

\* AttrTree.set_path: a new path is added behind the others, the item of a
\* path already there is replaced in place
SetPath(items, path, item) ==
    IF \E i \in DOMAIN items : items[i].path = path
    THEN [i \in DOMAIN items |-> IF items[i].path = path THEN item ELSE items[i]]
    ELSE Append(items, item)

\* the items of a dictionary, in some order
DictItems(d) ==
    LET p == CHOOSE q \in Perms(DOMAIN d) : TRUE
    IN [i \in DOMAIN p |-> <<p[i], d[p[i]]>>]

\* an ordered dictionary as a dictionary
AsDict(items) == [k \in {items[i][1] : i \in DOMAIN items} |-> Lookup(items, k)]

LevelOf(sheet) == Lookup(sheet.properties, "level")

LevelName(sheet) == IF LevelOf(sheet) = Retina THEN "Retina" ELSE "V1"

----------------------------------------------------------------------------
(* Model.setup: the sheets stage                                           *)

\* for properties in property_list: SheetSpec(sheet_type, dict(level=level,
\* **properties)), sort_precedence = ordering, self.sheets.set_path(...)
RECURSIVE AddSheets(_, _, _, _)
AddSheets(sh, property_list, level, ordering) ==
    IF property_list = <<>> THEN sh
    ELSE LET properties == property_list[1]
             spec_properties == [k \in DOMAIN properties \cup {"level"} |->
                                    IF k = "level" THEN LevelValue(level)
                                    ELSE properties[k]]
             spec == NewSheetSpec(DictItems(spec_properties))
             sheet_spec == [path |-> spec.name, properties |-> spec.properties,
                            sort_precedence |-> ordering, updated |-> FALSE]
         IN AddSheets(SetPath(sh, sheet_spec.path, sheet_spec),
                      Tail(property_list), level, ordering)

\* the loop over enumerate(sheet_properties.items()), from the i-th level on
RECURSIVE BuildSheets(_, _)
BuildSheets(i, sh) ==
    IF i > Len(Levels) THEN [sheets |-> sh, error |-> ""]
    ELSE LET level == Levels[i]
             property_list == cfg.sheet_properties[level]
         IN IF level \notin cfg.sheet_levels      \* self.sheet_types[level]
            THEN [sheets |-> sh, error |-> "KeyError"]
            ELSE IF property_list = <<>>          \* elif not property_list: continue
            THEN BuildSheets(i + 1, sh)
            ELSE BuildSheets(i + 1, AddSheets(sh, property_list, level, i - 1))

\* Model._update_sheet_spec_parameters: every sheet is updated with what the
\* method registered for its level returns; a level without one raises
UpdateSheetSpecParameters(sh) ==
    LET bad == {i \in DOMAIN sh : LevelName(sh[i]) \notin cfg.sheet_levels}
        stop == IF bad = {} THEN Len(sh) + 1
                ELSE CHOOSE i \in bad : \A j \in bad : i <= j
    IN [sheets |-> [i \in DOMAIN sh |->
                       IF i < stop THEN [sh[i] EXCEPT !.updated = TRUE] ELSE sh[i]],
        error |-> IF bad = {} THEN "" ELSE "Exception"]

----------------------------------------------------------------------------
(* Model.setup: the projections stage                                      *)

CandidatesWithoutSelfPairs(sh) ==
    SelectSeq([k \in 1..(Len(sh) * Len(sh)) |->
                  <<sh[((k - 1) \div Len(sh)) + 1], sh[((k - 1) % Len(sh)) + 1]>>],
              LAMBDA pair : pair[1] # pair[2])

\* itertools.product(self.sheets.path_items.values(), the same): the pairs
\* (src_sheet, dest_sheet), the source varying slowest
Candidates(sh) ==
    [k \in 1..(Len(sh) * Len(sh)) |->
        <<sh[((k - 1) \div Len(sh)) + 1], sh[((k - 1) % Len(sh)) + 1]>>]

\* level in self.matchconditions
HasMatchcondition(level) ==
    \E m \in MatchNames : cfg.matchfns[level][m] # "unregistered"

\* MatchConditions.compute_conditions(level, model, properties).items(), in
\* the order the dictionary yields them
ComputeConditions(level, properties) ==
    LET order == SelectSeq(cfg.conditions_order,
                           LAMBDA m : cfg.matchfns[level][m] # "unregistered")
    IN [i \in DOMAIN order |->
           [matchname |-> order[i],
            matchconditions |-> MatchFn(cfg.matchfns[level][order[i]], properties)]]

ConditionsOfSomeLevel(dest_sheet) ==
    ComputeConditions("V1", AsDict(dest_sheet.properties))

\* conditions = compute_conditions(...) if has_matchcondition else {}
ConditionsFor(dest_sheet) ==
    IF HasMatchcondition(LevelName(dest_sheet))
    THEN ComputeConditions(LevelName(dest_sheet), AsDict(dest_sheet.properties))
    ELSE <<>>

\* what projection_type.params() declares, each with its default
DefaultParameters ==
    [k \in {"name", "src", "dest", "strength"} |-> <<"default">>]

\* ProjectionSpec.__init__: the defaults without the keys src and dest
NewProjectionSpec(src, dest) ==
    [path |-> <<>>, src |-> src, dest |-> dest, matchname |-> "",
     parameters |-> [k \in DOMAIN DefaultParameters \ {"src", "dest"} |->
                        DefaultParameters[k]],
     sort_precedence |-> 0]

\* ProjectionSpec.__call__: the keyword arguments **self.parameters of
\* topo.sim.connect(str(self.src), str(self.dest), self.projection_type, ...)
ConnectKwargs(spec) == spec.parameters

\* Specification.update(**params)
Update(spec, params) ==
    [spec EXCEPT !.parameters =
        [k \in DOMAIN spec.parameters \cup DOMAIN params |->
            IF k \in DOMAIN params THEN params[k] ELSE spec.parameters[k]]]

Named(name) == [k \in {"name"} |-> name]

\* self.projection_labels[matchname](self, src.properties, dest.properties),
\* a single mapping put in a list
ParamSets(matchname, src, dest) ==
    CASE cfg.projection_fn = "perSource" -> <<Named(src.path \o <<matchname>>)>>
      [] cfg.projection_fn = "fixedName" -> <<Named(<<matchname>>)>>
      [] cfg.projection_fn = "emptyList" -> <<>>
      [] cfg.projection_fn = "twoSets" ->
            <<Named(src.path \o <<matchname, "0">>), Named(src.path \o <<matchname, "1">>)>>
      [] cfg.projection_fn = "withSrc" ->
            <<[k \in {"name", "src"} |->
                  IF k = "name" THEN src.path \o <<matchname>> ELSE src.path]>>

\* for paramset in paramsets: a fresh ProjectionSpec, updated, tagged with
\* the matchname and set at (str(dest_sheet), paramset['name'])
RECURSIVE AddProjections(_, _, _, _, _)
AddProjections(acc, paramsets, matchname, src, dest) ==
    IF paramsets = <<>> THEN acc
    ELSE LET proj == [Update(NewProjectionSpec(src, dest), paramsets[1])
                        EXCEPT !.matchname = matchname,
                               !.path = <<dest.path, paramsets[1]["name"]>>]
         IN AddProjections([acc EXCEPT !.projections = SetPath(@, proj.path, proj),
                                       !.n = @ + 1,
                                       !.produced = Append(@, proj)],
                           Tail(paramsets), matchname, src, dest)

\* for matchname, matchconditions in conditions.items()
RECURSIVE MatchSource(_, _, _, _)
MatchSource(acc, conditions, src, dest) ==
    IF conditions = <<>> \/ acc.error # "" THEN acc
    ELSE LET c == conditions[1]
         IN IF ~MatchconditionHolds(c.matchconditions, AsDict(src.properties))
            THEN MatchSource(acc, Tail(conditions), src, dest)
            ELSE IF cfg.projection_fn = "unregistered"   \* self.projection_types[matchname]
            THEN [acc EXCEPT !.error = "KeyError"]
            ELSE MatchSource(AddProjections(acc, ParamSets(c.matchname, src, dest),
                                            c.matchname, src, dest),
                             Tail(conditions), src, dest)

\* for src_sheet, dest_sheet in sheetspec_product
RECURSIVE MatchPairs(_, _)
MatchPairs(acc, pairs) ==
    IF pairs = <<>> \/ acc.error # "" THEN acc
    ELSE MatchPairs(MatchSource(acc, ConditionsFor(pairs[1][2]), pairs[1][1], pairs[1][2]),
                    Tail(pairs))

\* Model._compute_projection_specs
ComputeProjectionSpecs(sh, projs) ==
    MatchPairs([projections |-> projs, n |-> 0, produced |-> <<>>, error |-> ""],
               Candidates(sh))

----------------------------------------------------------------------------
(* Model.setup, stage by stage                                             *)

SetupInit ==
    /\ cfg \in Configs
    /\ pc = "attributes"
    /\ error = ""
    /\ calls = <<>>
    /\ sheets = <<>>
    /\ projections = <<>>
    /\ nSetPath = 0
    /\ produced = <<>>

SetupIdle ==
    /\ cfg = <<>>
    /\ pc = "idle"
    /\ error = ""
    /\ calls = <<>>
    /\ sheets = <<>>
    /\ projections = <<>>
    /\ nSetPath = 0
    /\ produced = <<>>

\* if 'attributes' in setup_options: self.attrs = self.setup_attributes(self.attrs)
AttributesStage ==
    /\ pc = "attributes"
    /\ pc' = "training_patterns"
    /\ calls' = IF Selected("attributes") THEN Append(calls, "setup_attributes") ELSE calls
    /\ UNCHANGED <<cfg, error, sheets, projections, nSetPath, produced, regVars, mcVars, nmVars, ordVars, condVars>>

\* if 'training_patterns' in setup_options: the patterns that the hook
\* returns are set in self.training_patterns
TrainingPatternsStage ==
    /\ pc = "training_patterns"
    /\ pc' = "sheets"
    /\ calls' = IF Selected("training_patterns")
                THEN Append(calls, "setup_training_patterns") ELSE calls
    /\ UNCHANGED <<cfg, error, sheets, projections, nSetPath, produced, regVars, mcVars, nmVars, ordVars, condVars>>

\* if 'sheets' in setup_options: the SheetSpecs are built, then updated
SheetsStage ==
    /\ pc = "sheets"
    /\ IF ~Selected("sheets")
       THEN /\ pc' = "projections"
            /\ UNCHANGED <<error, calls, sheets>>
       ELSE LET built == BuildSheets(1, sheets)
                updated == UpdateSheetSpecParameters(built.sheets)
            IN IF built.error # ""
               THEN /\ sheets' = built.sheets
                    /\ calls' = Append(calls, "setup_sheets")
                    /\ error' = built.error
                    /\ pc' = "raised"
               ELSE /\ sheets' = updated.sheets
                    /\ calls' = calls \o <<"setup_sheets", "_update_sheet_spec_parameters">>
                    /\ error' = updated.error
                    /\ pc' = IF updated.error # "" THEN "raised" ELSE "projections"
    /\ UNCHANGED <<cfg, projections, nSetPath, produced, regVars, mcVars, nmVars, ordVars, condVars>>

\* if 'projections' in setup_options: self._compute_projection_specs()
ProjectionsStage ==
    /\ pc = "projections"
    /\ IF ~Selected("projections")
       THEN /\ pc' = "analysis"
            /\ UNCHANGED <<error, calls, projections, nSetPath, produced>>
       ELSE LET computed == ComputeProjectionSpecs(sheets, projections)
            IN /\ projections' = computed.projections
               /\ nSetPath' = computed.n
               /\ produced' = computed.produced
               /\ calls' = Append(calls, "_compute_projection_specs")
               /\ error' = computed.error
               /\ pc' = IF computed.error # "" THEN "raised" ELSE "analysis"
    /\ UNCHANGED <<cfg, sheets, regVars, mcVars, nmVars, ordVars, condVars>>

\* if 'analysis' in setup_options: self._setup_analysis().  Model defines
\* setup_analysis and no _setup_analysis: the call finds a method only in a
\* subclass that defines one under that name
AnalysisStage ==
    /\ pc = "analysis"
    /\ IF ~Selected("analysis")
       THEN /\ pc' = "done"
            /\ UNCHANGED <<error, calls>>
       ELSE IF cfg.private_hook
       THEN /\ pc' = "done"
            /\ calls' = Append(calls, "_setup_analysis")
            /\ UNCHANGED error
       ELSE /\ pc' = "raised"
            /\ error' = "AttributeError"
            /\ UNCHANGED calls
    /\ UNCHANGED <<cfg, sheets, projections, nSetPath, produced, regVars, mcVars, nmVars, ordVars, condVars>>

SetupNext ==
    \/ AttributesStage
    \/ TrainingPatternsStage
    \/ SheetsStage
    \/ ProjectionsStage
    \/ AnalysisStage

----------------------------------------------------------------------------
(* order_projections and Model.__call__                                    *)

MaxProjs == 2           \* ProjectionSpecs in model.projections
MaxOrderLen == 2        \* entries of connection_order

\* an entry of connection_order: a method name, or a tuple of a method name
\* and a property dictionary
Bare(name) == [tuple |-> FALSE, name |-> name, pdict |-> PyNone]
Tuple(name, pdict) == [tuple |-> TRUE, name |-> name, pdict |-> PyDict(pdict)]

OrderEntries ==
    {Bare("A"), Bare("B"),
     Tuple("A", [k \in {"polarity"} |-> On]),
     Tuple("A", [k \in {"polarity"} |-> Off]),
     Tuple("A", [k \in {"SF"} |-> PyInt(1)]),
     Tuple("A", [k \in {"polarity", "SF"} |-> IF k = "SF" THEN PyInt(1) ELSE On])}

\* connection_list = [el if isinstance(el, tuple) else (el, None) for el in ...]
ConnectionList(order) ==
    [i \in DOMAIN order |-> [name |-> order[i].name, pdict |-> order[i].pdict]]

\* a V1 sheet with the given further properties
SheetWith(properties) ==
    LET spec == NewSheetSpec(DictItems([k \in DOMAIN properties \cup {"level"} |->
                                IF k = "level" THEN V1 ELSE properties[k]]))
    IN [path |-> spec.name, properties |-> spec.properties,
        sort_precedence |-> 0, updated |-> TRUE]

\* the ProjectionSpecs a configured model may hold: matchname and source
SpecKinds ==
    {<<"A", [k \in {"polarity"} |-> On]>>, <<"A", [k \in {"polarity"} |-> Off]>>,
     <<"A", [k \in {"polarity"} |-> OnOff]>>, <<"A", <<>>>>,
     <<"B", [k \in {"polarity"} |-> On]>>}

\* the i-th ProjectionSpec of the model, as _compute_projection_specs leaves it
ConfiguredSpec(i, kind) ==
    LET src == SheetWith(kind[2])
        dest == SheetWith(<<>>)
        name == <<kind[1], Digits(i)[1]>>
    IN [Update(NewProjectionSpec(src, dest), Named(name))
           EXCEPT !.matchname = kind[1], !.path = <<dest.path, name>>]

SeqsUpTo(S, n) == UNION {[1..k -> S] : k \in 0..n}

MatchesNumberedAfterFilter(spec, connection_list) ==
    LET found == SelectSeq(connection_list, LAMBDA el : el.name = spec.matchname)
    IN [j \in DOMAIN found |->
           [i |-> j - 1, name |-> found[j].name, pdict |-> found[j].pdict]]

\* matches = [(i, el) for i, el in enumerate(connection_list) if el[0] == spec.matchname]
Matches(spec, connection_list) ==
    SelectSeq([i \in DOMAIN connection_list |->
                  [i |-> i - 1, name |-> connection_list[i].name,
                   pdict |-> connection_list[i].pdict]],
              LAMBDA el : el.name = spec.matchname)

\* pdict.keys() of every match is one key, the same for all; None has no keys()
SingleCommonKey(matches) ==
    /\ \A j \in DOMAIN matches : ~matches[j].pdict.none
    /\ \A j \in DOMAIN matches : Cardinality(DOMAIN matches[j].pdict.d) = 1
    /\ \A j \in DOMAIN matches : DOMAIN matches[j].pdict.d = DOMAIN matches[1].pdict.d

Raised == [raised |-> TRUE, sort_precedence |-> 0]
Precedence(i) == [raised |-> FALSE, sort_precedence |-> i]

\* the loop body once the spec has entries in the list
OrderMatched(spec, matches) ==
    IF Len(matches) = 1 THEN Precedence(matches[1].i)
    ELSE IF ~SingleCommonKey(matches) THEN Raised
    ELSE LET key == CHOOSE k \in DOMAIN matches[1].pdict.d : TRUE
         IN IF ~HasKey(spec.src.properties, key)    \* spec.src.properties[key]
            THEN Raised
            ELSE LET spec_property_value == Lookup(spec.src.properties, key)
                     match == SelectSeq(matches,
                                 LAMBDA el : el.pdict.d[key] = spec_property_value)
                 IN IF Len(match) # 1 THEN Raised ELSE Precedence(match[1].i)

OrderOneSkippingUnlisted(spec, connection_list) ==
    LET matches == Matches(spec, connection_list)
    IN IF Len(matches) = 0 THEN Precedence(spec.sort_precedence)
       ELSE OrderMatched(spec, matches)

\* one pass of the loop body of order_projections: the exception, or the
\* sort_precedence the spec gets
OrderOne(spec, connection_list) ==
    LET matches == Matches(spec, connection_list)
    IN IF Len(matches) = 0 THEN Raised
       ELSE OrderMatched(spec, matches)

SpecLe(a, b) == a.sort_precedence <= b.sort_precedence

\* Specification.__lt__
SpecLt(a, b) == a.sort_precedence < b.sort_precedence

\* sorted(self.projections): stable, comparing with __lt__ only
RECURSIVE InsertSpec(_, _)
InsertSpec(sorted, x) ==
    IF sorted = <<>> THEN <<x>>
    ELSE IF SpecLt(x, sorted[Len(sorted)])
         THEN Append(InsertSpec(SubSeq(sorted, 1, Len(sorted) - 1), x),
                     sorted[Len(sorted)])
         ELSE Append(sorted, x)

RECURSIVE SortedSpecs(_)
SortedSpecs(specs) ==
    IF specs = <<>> THEN <<>>
    ELSE InsertSpec(SortedSpecs(SubSeq(specs, 1, Len(specs) - 1)), specs[Len(specs)])

OrdInit ==
    /\ connection_order \in SeqsUpTo(OrderEntries, MaxOrderLen)
    /\ \E kinds \in SeqsUpTo(SpecKinds, MaxProjs) :
          projections = [i \in DOMAIN kinds |-> ConfiguredSpec(i, kinds[i])]
    /\ ordPc = "ready"
    /\ ordIdx = 0
    /\ queue = <<>>
    /\ connected = <<>>
    /\ cfg = <<>>
    /\ pc = "done"
    /\ error = ""
    /\ calls = <<>>
    /\ sheets = <<>>
    /\ nSetPath = 0
    /\ produced = <<>>

OrdIdle ==
    /\ connection_order = <<>>
    /\ ordPc = "idle"
    /\ ordIdx = 0
    /\ queue = <<>>
    /\ connected = <<>>

\* order_projections is entered: connection_list is built
OrderProjections ==
    /\ ordPc = "ready"
    /\ ordPc' = "ordering"
    /\ ordIdx' = 1
    /\ UNCHANGED <<connection_order, queue, connected, setupVars, regVars, mcVars, nmVars, condVars>>

\* for spec in model.projections: one pass, or the end of the loop
OrderNextSpec ==
    /\ ordPc = "ordering"
    /\ IF ordIdx > Len(projections)
       THEN /\ ordPc' = "returned"
            /\ UNCHANGED <<ordIdx, projections>>
       ELSE LET r == OrderOne(projections[ordIdx], ConnectionList(connection_order))
            IN IF r.raised
               THEN /\ ordPc' = "raised"
                    /\ UNCHANGED <<ordIdx, projections>>
               ELSE /\ projections' = [projections EXCEPT
                                          ![ordIdx].sort_precedence = r.sort_precedence]
                    /\ ordIdx' = ordIdx + 1
                    /\ UNCHANGED ordPc
    /\ UNCHANGED <<connection_order, queue, connected, cfg, pc, error, calls, sheets,
                   nSetPath, produced, regVars, mcVars, nmVars, condVars>>

\* Model.__call__ with 'projections' among instantiate_options: the loop
\* over sorted(self.projections) starts
CallProjections ==
    /\ ordPc \in {"ready", "returned", "raised"}
    /\ ordPc' = "calling"
    /\ queue' = SortedSpecs(projections)
    /\ UNCHANGED <<connection_order, ordIdx, connected, setupVars, regVars, mcVars, nmVars, condVars>>

\* proj(): topo.sim.connect(str(src), str(dest), projection_type, **parameters)
Connect ==
    /\ ordPc = "calling"
    /\ IF queue = <<>>
       THEN /\ ordPc' = "called"
            /\ UNCHANGED <<queue, connected>>
       ELSE /\ connected' = Append(connected, Head(queue))
            /\ queue' = Tail(queue)
            /\ UNCHANGED ordPc
    /\ UNCHANGED <<connection_order, ordIdx, setupVars, regVars, mcVars, nmVars, condVars>>

OrdNext ==
    \/ OrderProjections
    \/ OrderNextSpec
    \/ CallProjections
    \/ Connect

----------------------------------------------------------------------------
(* MatchConditions                                                         *)

MaxCondRegs == 3        \* matchcondition methods decorated in one run

CondLevels == {"Retina", "V1"}
CondFns == {"none", "any", "fromRetina", "sameSF"}

\* the properties compute_conditions is called with
CondProperties ==
    {[k \in {"level"} |-> Retina],
     [k \in {"level", "SF"} |-> IF k = "level" THEN V1 ELSE PyInt(1)],
     [k \in {"level", "SF"} |-> IF k = "level" THEN V1 ELSE PyInt(12)]}

RegisteredReplacingLevel(table, level, method_name, f) ==
    [l \in DOMAIN table \cup {level} |->
        IF l = level THEN [k \in {method_name} |-> f] ELSE table[l]]

\* MatchConditions.__call__(level, method_name)(f): self._levels afterwards
Registered(table, level, method_name, f) ==
    IF level \notin DOMAIN table
    THEN [l \in DOMAIN table \cup {level} |->
             IF l = level THEN [k \in {method_name} |-> f] ELSE table[l]]
    ELSE [table EXCEPT ![level] =
             [k \in DOMAIN table[level] \cup {method_name} |->
                 IF k = method_name THEN f ELSE table[level][k]]]

NoCall == [status |-> "none", level |-> "", properties |-> <<>>, result |-> <<>>]

\* MatchConditions.compute_conditions(level, model, properties)
ComputeConditionsIn(table, level, properties) ==
    IF level \notin DOMAIN table                  \* if level not in self
    THEN [status |-> "raised", level |-> level, properties |-> properties,
          result |-> <<>>]
    ELSE [status |-> "returned", level |-> level, properties |-> properties,
          result |-> [k \in DOMAIN table[level] |-> MatchFn(table[level][k], properties)]]

CondInit ==
    /\ levelsTable = <<>>
    /\ condLog = <<>>
    /\ condCall = NoCall

CondIdle ==
    /\ levelsTable = <<>>
    /\ condLog = <<>>
    /\ condCall = NoCall

\* a method is decorated with @matchconditions(level, method_name)
RegisterCondition(level, method_name, f) ==
    /\ Len(condLog) < MaxCondRegs
    /\ levelsTable' = Registered(levelsTable, level, method_name, f)
    /\ condLog' = Append(condLog, [level |-> level, method_name |-> method_name, f |-> f])
    /\ condCall' = NoCall
    /\ UNCHANGED <<regVars, mcVars, nmVars, setupVars, ordVars>>

CallComputeConditions(level, properties) ==
    /\ condCall' = ComputeConditionsIn(levelsTable, level, properties)
    /\ UNCHANGED <<levelsTable, condLog, regVars, mcVars, nmVars, setupVars, ordVars>>

CondNext ==
    \/ \E level \in CondLevels, method_name \in MatchNames, f \in CondFns :
          RegisterCondition(level, method_name, f)
    \/ \E level \in CondLevels, properties \in CondProperties :
          CallComputeConditions(level, properties)

----------------------------------------------------------------------------
(* Specifications                                                          *)

InitRegistry == RegInit /\ McIdle /\ NmIdle /\ SetupIdle /\ OrdIdle /\ CondIdle

SpecRegistry == InitRegistry /\ [][RegNext]_vars

McNext == CallMatchconditionHolds

InitMatch == McInit /\ RegInit /\ NmIdle /\ SetupIdle /\ OrdIdle /\ CondIdle

SpecMatch == InitMatch /\ [][McNext]_vars

NmNext == \E i \in 1..2 : Construct(i)

InitName == NmInit /\ RegInit /\ McIdle /\ SetupIdle /\ OrdIdle /\ CondIdle

SpecName == InitName /\ [][NmNext]_vars

InitSetup == SetupInit /\ RegInit /\ McIdle /\ NmIdle /\ OrdIdle /\ CondIdle

SpecSetup == InitSetup /\ [][SetupNext]_vars

InitOrder == OrdInit /\ RegInit /\ McIdle /\ NmIdle /\ CondIdle

SpecOrder == InitOrder /\ [][OrdNext]_vars

InitConditions == CondInit /\ RegInit /\ McIdle /\ NmIdle /\ SetupIdle /\ OrdIdle

SpecConditions == InitConditions /\ [][CondNext]_vars

----------------------------------------------------------------------------
(* Claims about the registry                                               *)

RegisteredLabels == {regLog[i].label : i \in DOMAIN regLog}

\* the most recent registration of a label
LastReg(label) ==
    regLog[CHOOSE i \in DOMAIN regLog :
              /\ regLog[i].label = label
              /\ \A j \in DOMAIN regLog : regLog[j].label = label => j <= i]

\* C1: whatever the order in which the decorator set and the dictionaries are
\* iterated, _collect(decorators, 'labels') and _collect(decorators, 'types')
\* map every registered label to the function and the type of the most
\* recent (highest-priority) registration of that label, also when an earlier
\* registration of the label was made on another registry object.
C1_CollectHighestPriorityWins ==
    \A decOrder \in Perms(Decorators), keyOrder \in Perms(Labels) :
        LET L == Collect(labels, decOrder, keyOrder)
            T == Collect(types, decOrder, keyOrder)
        IN /\ DOMAIN L = RegisteredLabels
           /\ DOMAIN T = RegisteredLabels
           /\ \A l \in RegisteredLabels :
                 /\ L[l] = LastReg(l).f
                 /\ T[l] = TypeOf(LastReg(l).d)

\* a label registered on one registry object and later, with another
\* function, on a registry object that is iterated before the first one
C1_Witness ==
    \E i, j \in DOMAIN regLog :
        /\ i < j
        /\ regLog[i].label = regLog[j].label
        /\ regLog[i].d > regLog[j].d
        /\ regLog[i].f # regLog[j].f
        /\ LastReg(regLog[j].label) = regLog[j]

----------------------------------------------------------------------------
(* Claims about _matchcondition_holds                                      *)

\* C2: _matchcondition_holds returns False for None, True for an empty
\* mapping, and otherwise True exactly when for every key of the criteria
\* that the source's properties have, str(source value) is a substring of
\* str(criteria value); keys the source lacks never make it fail.
C2_MatchconditionHolds ==
    mcResult # "pending" =>
        /\ mcCriteria.none => mcResult = "False"
        /\ (~mcCriteria.none /\ DOMAIN mcCriteria.d = {}) => mcResult = "True"
        /\ ~mcCriteria.none =>
              (mcResult = "True" <=>
                  \A k \in DOMAIN mcCriteria.d \cap DOMAIN mcSrc :
                      IsSubstring(Str(mcSrc[k]), Str(mcCriteria.d[k])))

\* a match that rests on a proper substring and on a key the source lacks
C2_Witness ==
    /\ mcResult = "True"
    /\ ~mcCriteria.none
    /\ DOMAIN mcCriteria.d = {"polarity", "SF"}
    /\ DOMAIN mcSrc = {"level", "SF"}
    /\ mcSrc["SF"] = PyInt(1)
    /\ mcCriteria.d["SF"] = PyInt(12)

OnCriteria == PyDict([k \in {"polarity"} |-> On])
SrcWithPolarity(p) ==
    /\ DOMAIN mcSrc = {"level", "polarity"}
    /\ mcSrc["polarity"] = p

\* C3, as stated: criteria {"polarity": "On"} accept a source with polarity
\* "OnOff" and reject a source with polarity "Off".
C3_Original ==
    (mcResult # "pending" /\ mcCriteria = OnCriteria) =>
        /\ SrcWithPolarity(OnOff) => mcResult = "True"
        /\ SrcWithPolarity(Off) => mcResult = "False"

\* C3, amended: criteria {"polarity": "On"} reject a source with polarity
\* "OnOff" ("OnOff" is no substring of "On") and a source with polarity
\* "Off"; it is criteria {"polarity": "OnOff"} that accept a source with
\* polarity "On".
C3_OnCriteriaRejectOnOff ==
    mcResult # "pending" =>
        /\ mcCriteria = OnCriteria =>
              /\ SrcWithPolarity(OnOff) => mcResult = "False"
              /\ SrcWithPolarity(Off) => mcResult = "False"
        /\ (mcCriteria = PyDict([k \in {"polarity"} |-> OnOff]) /\ SrcWithPolarity(On))
              => mcResult = "True"

C3_Witness ==
    /\ mcResult = "False"
    /\ mcCriteria = OnCriteria
    /\ SrcWithPolarity(OnOff)

----------------------------------------------------------------------------
(* Claims about SheetSpec names                                            *)

AgreeOnCanonicalKeys(a, b) ==
    \A i \in DOMAIN name_ordering :
        LET k == name_ordering[i]
        IN /\ HasKey(a, k) <=> HasKey(b, k)
           /\ HasKey(a, k) => Lookup(a, k) = Lookup(b, k)

\* C4: two SheetSpecs built from mappings that agree on every canonical key
\* have equal names, whatever the insertion order of the mappings and
\* whatever non-canonical keys they hold.
C4_NameOfCanonicalProperties ==
    (/\ nmSpec[1].status = "ok"
     /\ nmSpec[2].status = "ok"
     /\ AgreeOnCanonicalKeys(nmInput[1], nmInput[2]))
        => /\ nmSpec[1].name = nmSpec[2].name
           /\ nmSpec[1].properties = nmSpec[2].properties

\* two mappings with three canonical keys in different insertion orders, one
\* of them with a non-canonical key
C4_Witness ==
    /\ nmSpec[1].status = "ok"
    /\ nmSpec[2].status = "ok"
    /\ AgreeOnCanonicalKeys(nmInput[1], nmInput[2])
    /\ Len(nmInput[1]) = 3
    /\ Len(nmInput[2]) = 4
    /\ nmInput[1][1][1] = "SF"
    /\ nmInput[2][1][1] = "colour"
    /\ nmInput[2][2][1] = "polarity"
    /\ nmSpec[1].name = <<"V", "1", "O", "n", "1", "2">>

----------------------------------------------------------------------------
(* Claims about Model.setup                                                *)

SheetSet == {sheets[i] : i \in DOMAIN sheets}
ProjectionSet == {projections[i] : i \in DOMAIN projections}

\* the projections stage was selected and ran to its end
ProjectionsStageCompleted ==
    /\ Selected("projections")
    /\ \/ pc \in {"analysis", "done"}
       \/ pc = "raised" /\ error = "AttributeError"

\* no two set_path calls of the stage named the same path
DistinctPaths == nSetPath = Len(projections)

HasProjection(s, d, m) ==
    \E p \in ProjectionSet : p.src = s /\ p.dest = d /\ p.matchname = m

\* the level of d has a table entry, m is a rule of it, and the criteria the
\* rule returns for d hold of s
Admits(s, d, m) ==
    /\ HasMatchcondition(LevelName(d))
    /\ cfg.matchfns[LevelName(d)][m] # "unregistered"
    /\ MatchconditionHolds(MatchFn(cfg.matchfns[LevelName(d)][m], AsDict(d.properties)),
                           AsDict(s.properties))

ProjectionsWellFormed ==
    \A p \in ProjectionSet :
        /\ p.src \in SheetSet
        /\ p.dest \in SheetSet
        /\ HasMatchcondition(LevelName(p.dest))

AcceptsEverySource(level) ==
    /\ HasMatchcondition(level)
    /\ \A m \in MatchNames : cfg.matchfns[level][m] \in {"unregistered", "any"}

RulesOf(level) == {m \in MatchNames : cfg.matchfns[level][m] # "unregistered"}

ProjectionsBetween(s, d) ==
    {i \in DOMAIN projections : projections[i].src = s /\ projections[i].dest = d}

\* the model of sheets Retina (no matchcondition) and two V1 sheets whose one
\* rule accepts every source
RetinaAndTwoV1 ==
    /\ Selected("sheets")
    /\ cfg.sheet_properties["Retina"] = << <<>> >>
    /\ cfg.sheet_properties["V1"] = <<SF(1), SF(12)>>
    /\ ~HasMatchcondition("Retina")
    /\ AcceptsEverySource("V1")
    /\ Cardinality(RulesOf("V1")) = 1

\* C6: the projections stage pairs every sheet with every sheet, itself
\* included: with a parameter function that names each projection after its
\* source, each sheet of a level whose rules accept every source receives
\* exactly one projection per rule from every sheet of the model; for Retina
\* and two V1 sheets that is 6 projections, all into V1, two of them
\* self-projections.
C6_CrossProductWithSelfPairs ==
    (ProjectionsStageCompleted /\ cfg.projection_fn = "perSource") =>
        /\ \A d \in SheetSet : AcceptsEverySource(LevelName(d)) =>
              \A s \in SheetSet :
                  Cardinality(ProjectionsBetween(s, d))
                      = Cardinality(RulesOf(LevelName(d)))
        /\ RetinaAndTwoV1 =>
              /\ Len(projections) = 6
              /\ \A p \in ProjectionSet : LevelName(p.dest) = "V1"
              /\ Cardinality({i \in DOMAIN projections :
                                 projections[i].src = projections[i].dest}) = 2

C6_Witness ==
    /\ ProjectionsStageCompleted
    /\ cfg.projection_fn = "perSource"
    /\ RetinaAndTwoV1
    /\ Len(sheets) = 3
    /\ Len(projections) = 6

AllHooksInOrder ==
    <<"setup_attributes", "setup_training_patterns", "setup_sheets",
      "_update_sheet_spec_parameters", "_compute_projection_specs", "setup_analysis">>

\* C7: setup runs the selected stages in the order attributes,
\* training_patterns, sheets, projections, analysis; with setup_options=True
\* every stage runs, each hook is invoked once, the subclass's setup_analysis
\* last, and setup completes (here: whenever the sheets and the projections
\* stage raise nothing).
C7_SetupRunsAllStages ==
    (/\ pc \in {"done", "raised"}
     /\ cfg.options.all
     /\ error \notin {"KeyError", "Exception"})
        => /\ pc = "done"
           /\ calls = AllHooksInOrder

----------------------------------------------------------------------------
(* Claims about the instantiation order and order_projections              *)

IndexIn(specs, spec) == CHOOSE i \in DOMAIN specs : specs[i].path = spec.path

\* C8: the connect calls are issued in ascending sort_precedence, specs of
\* equal sort_precedence in their order in model.projections, and once the
\* call has ended every ProjectionSpec was connected exactly once.
C8_ConnectInPrecedenceOrder ==
    /\ ordPc \in {"calling", "called"} =>
          /\ \A i \in DOMAIN connected :
                \E j \in DOMAIN projections : projections[j] = connected[i]
          /\ \A i, j \in DOMAIN connected : i < j =>
                \/ connected[i].sort_precedence < connected[j].sort_precedence
                \/ /\ connected[i].sort_precedence = connected[j].sort_precedence
                   /\ IndexIn(projections, connected[i]) < IndexIn(projections, connected[j])
    /\ ordPc = "called" =>
          \A j \in DOMAIN projections :
              Cardinality({i \in DOMAIN connected : connected[i] = projections[j]}) = 1

\* two specs that order_projections has put in the reverse of their order
\* in model.projections, both connected
C8_Witness ==
    /\ ordPc = "called"
    /\ Len(projections) = 2
    /\ projections[1].sort_precedence > projections[2].sort_precedence
    /\ connected = <<projections[2], projections[1]>>

SourcePolarity(spec, p) ==
    /\ HasKey(spec.src.properties, "polarity")
    /\ Lookup(spec.src.properties, "polarity") = p

\* the positions of the entries named as the spec's matchname
EntriesOf(spec) ==
    {i \in DOMAIN connection_order : connection_order[i].name = spec.matchname}

\* the entry carries criteria of exactly one key
SingleKeyEntry(i) ==
    /\ connection_order[i].tuple
    /\ Cardinality(DOMAIN connection_order[i].pdict.d) = 1

\* entry i has the single criteria key k, mapped to the value of k in the
\* properties of the spec's source
SelectsSource(i, spec) ==
    /\ SingleKeyEntry(i)
    /\ \E k \in DOMAIN connection_order[i].pdict.d :
          /\ HasKey(spec.src.properties, k)
          /\ connection_order[i].pdict.d[k] = Lookup(spec.src.properties, k)

\* C9: when order_projections returns, every spec has the position of an
\* entry of its matchname: of the only one if there is one, whatever its
\* criteria, and otherwise of the unique entry whose single criteria key maps
\* to the value of that key in the spec's source properties.
C9_PrecedenceIsListPosition ==
    ordPc = "returned" =>
        \A n \in DOMAIN projections :
            LET spec == projections[n]
                E == EntriesOf(spec)
            IN /\ \E i \in E : spec.sort_precedence = i - 1
               /\ Cardinality(E) > 1 =>
                     /\ SelectsSource(spec.sort_precedence + 1, spec)
                     /\ \A i \in E : SelectsSource(i, spec) => i = spec.sort_precedence + 1

\* a matchname listed once, behind another entry and with criteria its source
\* does not satisfy, next to a spec of a matchname listed without criteria
C9_Witness ==
    /\ ordPc = "returned"
    /\ connection_order = <<Bare("B"), Tuple("A", [k \in {"polarity"} |-> On])>>
    /\ Len(projections) = 2
    /\ projections[1].matchname = "A"
    /\ SourcePolarity(projections[1], Off)
    /\ projections[1].sort_precedence = 1
    /\ projections[2].sort_precedence = 0

\* the entries of the spec's matchname all carry one criteria key, the same
SameSingleKey(E) ==
    /\ \A i \in E : SingleKeyEntry(i)
    /\ \A i, j \in E : DOMAIN connection_order[i].pdict.d = DOMAIN connection_order[j].pdict.d

CannotBeOrdered(spec) ==
    LET E == EntriesOf(spec)
    IN \/ E = {}
       \/ Cardinality(E) > 1 /\ ~SameSingleKey(E)
       \/ Cardinality(E) > 1 /\ Cardinality({i \in E : SelectsSource(i, spec)}) # 1

OnThenOff ==
    <<Tuple("A", [k \in {"polarity"} |-> On]), Tuple("A", [k \in {"polarity"} |-> Off])>>

\* C10: order_projections raises whenever some spec's matchname has no
\* entry, or several entries that do not all carry one and the same single
\* criteria key, or several entries of which not exactly one has the value
\* of the spec's source; with the list [("A", {k: x}), ("A", {k: y})] (here
\* k = polarity, x = On, y = Off, z = OnOff) the specs of sources x and y get
\* 0 and 1 and a spec of source z raises.
C10_RaisesWhenNotOrderable ==
    /\ (ordPc = "returned") =>
          \A n \in DOMAIN projections : ~CannotBeOrdered(projections[n])
    /\ (ordPc \in {"returned", "raised"} /\ connection_order = OnThenOff) =>
          /\ \A n \in DOMAIN projections :
                (n < ordIdx /\ projections[n].matchname = "A") =>
                    /\ SourcePolarity(projections[n], On)
                          => projections[n].sort_precedence = 0
                    /\ SourcePolarity(projections[n], Off)
                          => projections[n].sort_precedence = 1
          /\ (\E n \in DOMAIN projections :
                 /\ projections[n].matchname = "A"
                 /\ SourcePolarity(projections[n], OnOff)) => ordPc = "raised"

\* the list of the example: the spec of source y has got position 1 and the
\* spec of source z has raised
C10_Witness ==
    /\ ordPc = "raised"
    /\ connection_order = OnThenOff
    /\ Len(projections) = 2
    /\ SourcePolarity(projections[1], Off)
    /\ projections[1].sort_precedence = 1
    /\ SourcePolarity(projections[2], OnOff)
    /\ ordIdx = 2

----------------------------------------------------------------------------
(* Claims about the parameters of a ProjectionSpec                         *)

\* C11: the parameters that a ProjectionSpec passes to connect as keyword
\* arguments hold neither the key src nor the key dest, after construction
\* and after every update, the update with the parameter set of the
\* projection parameter function included.
C11_NoSrcDestParameters ==
    \A p \in ProjectionSet :
        /\ "src" \notin DOMAIN ConnectKwargs(p)
        /\ "dest" \notin DOMAIN ConnectKwargs(p)

----------------------------------------------------------------------------
(* Claims about the priority counter                                       *)

\* C12: every registration, through whichever registry object, raises the
\* process-wide counter by exactly one and is assigned a priority greater
\* than that of every earlier registration, so the counter never decreases
\* and no priority is assigned twice; the type entry and the function entry
\* that the registration records carry that same priority.
C12_PriorityPerRegistration ==
    [][LET reg == regLog'[Len(regLog')]
       IN /\ Len(regLog') = Len(regLog) + 1
          /\ priority' = priority + 1
          /\ reg.priority = priority
          /\ \A i \in DOMAIN regLog : regLog[i].priority < reg.priority
          /\ labels'[reg.d][reg.label][1] = reg.priority
          /\ types'[reg.d][reg.label][1] = reg.priority
          /\ \A d \in Decorators :
                /\ DOMAIN labels'[d] = DOMAIN types'[d]
                /\ \A l \in DOMAIN labels'[d] : labels'[d][l][1] = types'[d][l][1]]_regVars

\* three registrations through two registry objects, the third of a label
\* that the first had registered on the same object
C12_Witness ==
    /\ Len(regLog) = 3
    /\ regLog[1].d = regLog[3].d
    /\ regLog[1].label = regLog[3].label
    /\ regLog[2].d # regLog[1].d
    /\ priority = 3

----------------------------------------------------------------------------
(* Claims about MatchConditions                                            *)

RegistrationsOf(level) == {i \in DOMAIN condLog : condLog[i].level = level}

\* the function most recently registered for (level, method_name)
LastFn(level, method_name) ==
    condLog[CHOOSE i \in RegistrationsOf(level) :
               /\ condLog[i].method_name = method_name
               /\ \A j \in RegistrationsOf(level) :
                     condLog[j].method_name = method_name => j <= i].f

\* C13: compute_conditions(level, model, properties) raises if no function
\* was ever registered for the level, and otherwise returns a mapping whose
\* keys are the method names registered for the level, each with the result
\* of the function most recently registered for (level, method name);
\* registrations for other levels do not enter.
C13_ComputeConditions ==
    condCall.status # "none" =>
        LET regs == RegistrationsOf(condCall.level)
        IN /\ condCall.status = "raised" <=> regs = {}
           /\ condCall.status = "returned" =>
                 /\ DOMAIN condCall.result = {condLog[i].method_name : i \in regs}
                 /\ \A k \in DOMAIN condCall.result :
                       condCall.result[k] =
                           MatchFn(LastFn(condCall.level, k), condCall.properties)

\* a method name registered twice for V1 with different functions, next to
\* another method name of V1, and the call for a V1 sheet
C13_Witness ==
    /\ condCall.status = "returned"
    /\ condCall.level = "V1"
    /\ Len(condLog) = 3
    /\ \A i \in 1..3 : condLog[i].level = "V1"
    /\ condLog[1].method_name = "afferent"
    /\ condLog[2].method_name = "lateral"
    /\ condLog[3].method_name = "afferent"
    /\ condLog[1].f = "any"
    /\ condLog[3].f = "sameSF"
    /\ DOMAIN condCall.result = {"afferent", "lateral"}
    /\ condCall.result["afferent"] = PyDict(SF(12))

----------------------------------------------------------------------------
(* Claims about the sheets stage                                           *)

SheetsStageRan ==
    /\ Selected("sheets")
    /\ pc \in {"projections", "analysis", "done", "raised"}

EmptyLevels == {l \in {"Retina", "V1"} : cfg.sheet_properties[l] = <<>>}

\* C14: in the sheets stage a level whose property list is empty is skipped:
\* no SheetSpec is created for it, nothing is raised on its account, and the
\* SheetSpecs of the remaining levels are created.  (The levels that do have
\* properties all have a sheet type here, so nothing else can raise KeyError.)
C14_EmptyLevelSkipped ==
    (/\ SheetsStageRan
     /\ EmptyLevels # {}
     /\ \A l \in {"Retina", "V1"} \ EmptyLevels : l \in cfg.sheet_levels)
    => /\ error # "KeyError"
       /\ \A l \in EmptyLevels : \A s \in SheetSet : LevelName(s) # l
       /\ \A l \in {"Retina", "V1"} \ EmptyLevels :
             \E s \in SheetSet : LevelName(s) = l

----------------------------------------------------------------------------
(* Claims about colliding projection paths                                 *)

ProjectionsStageRan ==
    /\ Selected("projections")
    /\ pc \in {"analysis", "done", "raised"}
    /\ produced # <<>>

\* the last ProjectionSpec produced for a path
LastProduced(path) ==
    produced[CHOOSE j \in DOMAIN produced :
                /\ produced[j].path = path
                /\ \A k \in DOMAIN produced : produced[k].path = path => k <= j]

\* C15: in the projections stage, accepted combinations that produce the same
\* path (destination name, parameters['name']) raise nothing and the
\* ProjectionSpec built later replaces the earlier one: model.projections
\* holds exactly one ProjectionSpec per distinct path produced, and it is
\* the last one produced for that path.
C15_LastProducedWins ==
    ProjectionsStageRan =>
        /\ error \in {"", "AttributeError"}
        /\ \A i, j \in DOMAIN projections :
              projections[i].path = projections[j].path => i = j
        /\ {projections[i].path : i \in DOMAIN projections}
              = {produced[j].path : j \in DOMAIN produced}
        /\ \A i \in DOMAIN projections :
              projections[i] = LastProduced(projections[i].path)

\* two sources were accepted into one destination under one name
C15_Witness ==
    /\ ProjectionsStageRan
    /\ pc = "done"
    /\ Len(projections) < Len(produced)
    /\ \E j, k \in DOMAIN produced :
          /\ j < k
          /\ produced[j].path = produced[k].path
          /\ produced[j].src # produced[k].src
          /\ LastProduced(produced[j].path) = produced[k]
          /\ produced[k] \in ProjectionSet
          /\ produced[j] \notin ProjectionSet

====
